---- MODULE Spec2Model ----
(***************************************************************************)
(* A model of the DiffDelta Python client: the cursor store (cursor.py),   *)
(* the poll engine and the watch loop (client.py) and the JSON-to-struct   *)
(* conversions they rely on (models.py).                                   *)
(*                                                                         *)
(* One client instance is modelled.  The server and the local disk are the *)
(* environment: every network request draws its response (a raw JSON       *)
(* document, or a failure) from a bounded set, every write of the cursor   *)
(* file draws its outcome.                                                 *)
(***************************************************************************)
EXTENDS Integers, Sequences, FiniteSets, TLC

VARIABLES
    enabled,    \* DiffDelta._cursors is a CursorStore (TRUE) or None (FALSE)
    cursors,    \* CursorStore._cursors: the in-memory cursor table
    file,       \* the content of the cursor file on disk
    cache,      \* DiffDelta._source_tags_cache: [fetched, table]
    call,       \* the public call that has just returned: what it did and gave back
    seen,       \* the last Feed whose items a poll returned, and those items (history)
    watch,      \* the position and locals of a running watch() call
    sent,       \* how many requests for the sources document were sent (history)
    peer        \* the table of a second CursorStore constructed over the same file

vars == <<enabled, cursors, file, cache, call, seen, watch, sent, peer>>

----------------------------------------------------------------------------
(* Bounds of the model                                                     *)

\* The most raw items one Feed document carries, over its three buckets.
MaxItems == 2
\* A request for the sources document is cut short by a stop signal at most
\* this many times.
MaxCutShort == 2

\* The cursor strings the server hands out.
Cursors == {"c1", "c2"}
\* A cursor as Head.from_raw / Feed.from_raw produce it: "" when the field is missing.
CursorVals == Cursors \cup {""}

SourceIds == {"s1", "s2"}
TagNames == {"security", "finance"}
ItemIds == {"i1"}
BucketNames == {"new", "updated", "removed"}

----------------------------------------------------------------------------
(* Python values                                                           *)

\* Python's None where a str is expected.
None == "<None>"

\* bool(x) of an Optional[str]: None and "" are falsy.
Truthy(s) == s # None /\ s # ""

\* An Optional[List[str]] argument: absent (None) or a list, of which only
\* membership is ever used (`in`, `any`), so the list is kept as its set.
Absent == [given |-> FALSE, vals |-> {}]
Given(S) == [given |-> TRUE, vals |-> S]
\* An Optional[int] argument.
NoInterval == [given |-> FALSE, val |-> 0]
GivenInterval(n) == [given |-> TRUE, val |-> n]
\* Mutant: a list that is given is a filter, also when it is empty.
ListGiven(f) == f.given

\* bool(x) of an Optional[List[str]]: None and [] are falsy.
ListTruthy(f) == f.given /\ f.vals # {}

\* dict.get(key, default) on a raw JSON object.
DictGet(d, k, default) == IF k \in DOMAIN d THEN d[k] ELSE default

EmptyTable == [k \in {} |-> ""]
\* d[key] = value
DictSet(d, k, v) == [x \in (DOMAIN d) \cup {k} |-> IF x = k THEN v ELSE d[x]]
\* d.pop(key, None)
DictPop(d, k) == [x \in (DOMAIN d) \ {k} |-> d[x]]

----------------------------------------------------------------------------
(* models.py                                                               *)

\* FeedItem.from_raw(data, bucket): the bucket comes from the caller.
FeedItemFromRaw(data, bucket) ==
    [source |-> DictGet(data, "source", ""),
     id     |-> DictGet(data, "id", ""),
     bucket |-> bucket]

ItemsFromRaw(raws, bucket) ==
    [i \in 1..Len(raws) |-> FeedItemFromRaw(raws[i], bucket)]

\* Head.from_raw
HeadFromRaw(data) ==
    [cursor  |-> DictGet(data, "cursor", ""),
     ttl_sec |-> DictGet(data, "ttl_sec", 900)]

\* all_items = new_items + updated_items + removed_items
FeedAllItems(newItems, updatedItems, removedItems) ==
    newItems \o updatedItems \o removedItems

\* Feed.from_raw
FeedFromRaw(data) ==
    LET buckets == DictGet(data, "buckets", EmptyTable)
        newItems     == ItemsFromRaw(DictGet(buckets, "new", <<>>), "new")
        updatedItems == ItemsFromRaw(DictGet(buckets, "updated", <<>>), "updated")
        removedItems == ItemsFromRaw(DictGet(buckets, "removed", <<>>), "removed")
    IN  [cursor |-> DictGet(data, "cursor", ""),
         items  |-> FeedAllItems(newItems, updatedItems, removedItems)]

\* {s.source_id: s.tags for s in all_sources} over SourceInfo.from_raw
SourceTagsFromRaw(data) ==
    LET srcs == DictGet(data, "sources", <<>>)
        ids  == {DictGet(srcs[i], "source_id", "") : i \in 1..Len(srcs)}
        \* a dict comprehension keeps the last entry of a repeated key
        lastOf(id) == CHOOSE i \in 1..Len(srcs) :
                         /\ DictGet(srcs[i], "source_id", "") = id
                         /\ \A j \in (i+1)..Len(srcs) : DictGet(srcs[j], "source_id", "") # id
    IN  [id \in ids |-> DictGet(srcs[lastOf(id)], "tags", {})]

----------------------------------------------------------------------------
(* cursor.py                                                               *)

\* The cursor file: missing, not valid JSON, valid JSON that is no object,
\* or a JSON object (a table).
FileMissing == [kind |-> "missing", data |-> EmptyTable]
FileCorrupt == [kind |-> "corrupt", data |-> EmptyTable]
FileNonDict == [kind |-> "nondict", data |-> EmptyTable]
FileDict(t) == [kind |-> "dict", data |-> t]
\* A file whose bytes are not text in the encoding open(path, "r") uses.
FileUndecodable == [kind |-> "undecodable", data |-> EmptyTable]

\* CursorStore._load: does it raise? json.load reads the file as text, and
\* the UnicodeDecodeError of an undecodable file is neither a JSONDecodeError
\* nor an OSError.
LoadRaises(f) == f.kind = "undecodable"

\* CursorStore._load: the table after construction over file f.
Load(f) == IF f.kind = "dict" THEN f.data ELSE EmptyTable

\* Mutant: a write that fails always leaves the file truncated.
SaveFailureTruncates(t, f, outcome) == IF outcome = "ok" THEN FileDict(t) ELSE FileCorrupt

\* Mutant: a save adds the table's entries to those of the file instead of
\* rewriting the file.
SaveMerges(t, f, outcome) ==
    CASE outcome = "ok" ->
            FileDict([k \in DOMAIN t \cup DOMAIN f.data |->
                         IF k \in DOMAIN t THEN t[k] ELSE f.data[k]])
      [] outcome = "fail" -> f
      [] OTHER -> FileCorrupt

\* CursorStore._save: the file after a save of table t; the write succeeds,
\* fails before the file is opened (makedirs/open raise OSError), or fails
\* after open(path, "w") truncated it (json.dump raises OSError).
SaveOutcomes == {"ok", "fail", "fail_truncated"}
Save(t, f, outcome) ==
    CASE outcome = "ok" -> FileDict(t)
      [] outcome = "fail" -> f
      [] OTHER -> FileCorrupt

\* CursorStore.get
StoreGet(t, key) == IF key \in DOMAIN t THEN t[key] ELSE None

\* Mutant: set() drops every other entry.
StoreSetAlone(t, key, cursor) == [k \in {key} |-> cursor]

\* Mutant: set() keeps an entry that is already there (setdefault).
StoreSetDefault(t, key, cursor) == IF key \in DOMAIN t THEN t ELSE DictSet(t, key, cursor)

\* CursorStore.set: the table after self._cursors[key] = cursor
StoreSet(t, key, cursor) == DictSet(t, key, cursor)

\* Mutant: clear() drops every entry, whatever the key.
StoreClearEverything(t, key) == EmptyTable

\* CursorStore.clear: the table after clear(key); a falsy key clears all.
StoreClear(t, key) == IF Truthy(key) THEN DictPop(t, key) ELSE EmptyTable

----------------------------------------------------------------------------
(* client.py: URLs and feed keys                                           *)

GlobalKey == "global"
SourceKey(id) == "source:" \o id

GlobalHeadUrl == "/diff/head.json"
GlobalLatestUrl == "/diff/latest.json"
SourcesUrl == "/diff/sources.json"
SourceHeadUrl(id) == "/diff/source/" \o id \o "/head.json"
SourceLatestUrl(id) == "/diff/source/" \o id \o "/latest.json"

\* `if buckets is None: buckets = ["new", "updated"]`
\* Mutant: the default bucket filter lets every bucket through.
DefaultBucketsAll(buckets) ==
    IF buckets.given THEN buckets.vals ELSE {"new", "updated", "removed"}

\* `if buckets is None: buckets = ["new", "updated"]`
DefaultBuckets(buckets) == IF buckets.given THEN buckets.vals ELSE {"new", "updated"}

----------------------------------------------------------------------------
(* client.py: _poll_feed                                                   *)

\* A response of the transport (_get_json): the parsed JSON document, or an
\* exception (connection error, raise_for_status, invalid JSON).
Failure == [ok |-> FALSE, data |-> EmptyTable]
Response(doc) == [ok |-> TRUE, data |-> doc]

\* Mutant: a client without a cursor store looks the cursor up in the file.
StoredCursorFromFile(key) == StoreGet(IF enabled THEN cursors ELSE Load(file), key)

\* Step 2: stored_cursor = self._cursors.get(cursor_key) if self._cursors else None
StoredCursor(key) == IF enabled THEN StoreGet(cursors, key) ELSE None

\* Mutants of the head check: the comparison inverted; the None test inverted.
NothingChangedInverted(stored, head) == Truthy(stored) /\ stored # head.cursor
NothingChangedOrUnset(stored, head) == ~Truthy(stored) \/ stored = head.cursor
\* Mutant: the head check never finds the feed unchanged.
NothingChangedNever(stored, head) == FALSE

\* Step 2: `if stored_cursor and stored_cursor == head.cursor: return []`
NothingChanged(stored, head) == Truthy(stored) /\ stored = head.cursor

\* Mutant: the Feed's cursor is never saved.
SavesCursorNever(feed) == FALSE

\* Mutant: the Feed's cursor is saved also when it is empty.
SavesCursorAlways(feed) == enabled

\* Step 4: `if self._cursors and feed.cursor:`
SavesCursor(feed) == enabled /\ Truthy(feed.cursor)

\* Mutant: the Head's cursor is saved instead of the Feed's.
CursorToSaveFromHead(head, feed) == head.cursor

\* Step 4: the value handed to self._cursors.set(cursor_key, ...)
CursorToSave(head, feed) == feed.cursor

\* Mutant: every tag of the filter must be among the source's tags.
PassesTagsAll(item, tags, st) ==
    ~(ListTruthy(tags) /\ ~(\A t \in tags.vals : t \in DictGet(st, item.source, {})))

\* Mutant: an item whose source is not in the table passes the tags filter.
PassesTagsUnknownSource(item, tags, st) ==
    ~(ListTruthy(tags) /\ item.source \in DOMAIN st
         /\ ~(\E t \in tags.vals : t \in st[item.source]))

\* Step 5, one pass of the loop body: does the item reach items.append(item)?
\* st is the table self._get_source_tags() returns.
PassesBucket(item, buckets) == item.bucket \in buckets
PassesSources(item, sources) == ~(ListTruthy(sources) /\ item.source \notin sources.vals)
PassesTags(item, tags, st) ==
    ~(ListTruthy(tags) /\ ~(\E t \in tags.vals : t \in DictGet(st, item.source, {})))

\* Step 5: the loop `for item in feed.items`, from position i on.
RECURSIVE FilterFrom(_, _, _, _, _, _)
FilterFrom(items, i, tags, sources, buckets, st) ==
    IF i > Len(items) THEN <<>>
    ELSE LET item == items[i]
             rest == FilterFrom(items, i + 1, tags, sources, buckets, st)
         IN  IF ~PassesBucket(item, buckets) THEN rest
             ELSE IF ~PassesSources(item, sources) THEN rest
             ELSE IF ~PassesTags(item, tags, st) THEN rest
             ELSE <<item>> \o rest

\* Step 5: is self._get_source_tags() called at all? Only for an item that
\* passed the bucket and source tests, and only under a truthy tags filter.
CallsGetSourceTags(items, tags, sources, buckets) ==
    /\ ListTruthy(tags)
    /\ \E i \in 1..Len(items) :
           PassesBucket(items[i], buckets) /\ PassesSources(items[i], sources)

\* _get_source_tags: the cache after the call, given the response the
\* sources request gets if one is made.
CacheUnset == [fetched |-> FALSE, table |-> EmptyTable]

\* Mutant: a failed sources request leaves the cache unset.
GetSourceTagsForgetsFailure(c, resp) ==
    IF c.fetched THEN c
    ELSE IF resp.ok THEN [fetched |-> TRUE, table |-> SourceTagsFromRaw(resp.data)]
    ELSE CacheUnset

GetSourceTags(c, resp) ==
    IF c.fetched THEN c
    ELSE [fetched |-> TRUE,
          table   |-> IF resp.ok THEN SourceTagsFromRaw(resp.data) ELSE EmptyTable]

\* Mutant: the failure is swallowed and the poll returns an empty list.
PropagatesNot(requests, headCursor) ==
    [cursors |-> cursors, file |-> file, cache |-> cache,
     status |-> "ok", result |-> <<>>, requests |-> requests,
     head |-> headCursor, fetched |-> FALSE, feed |-> FeedFromRaw(EmptyTable)]

\* A failed request inside _poll_feed: _get_json raises, nothing catches it
\* before the caller, so no statement after the request runs.
Propagates(requests, headCursor) ==
    [cursors |-> cursors, file |-> file, cache |-> cache,
     status |-> "raised", result |-> <<>>, requests |-> requests,
     head |-> headCursor, fetched |-> FALSE, feed |-> FeedFromRaw(EmptyTable)]

\* _poll_feed as a function of the client's state and of what the
\* environment answers: env = [head, feed, srcs: responses, save: outcome].
\* The result names the effect on the state and what the caller observes.
PollFeed(headUrl, latestUrl, key, tags, sources, buckets, env) ==
    LET head   == HeadFromRaw(env.head.data)
        stored == StoredCursor(key)
        feed   == FeedFromRaw(env.feed.data)
        saves  == SavesCursor(feed)
        table  == IF saves THEN StoreSet(cursors, key, CursorToSave(head, feed)) ELSE cursors
        disk   == IF saves THEN Save(table, file, env.save) ELSE file
        calls  == CallsGetSourceTags(feed.items, tags, sources, buckets)
        c2     == IF calls THEN GetSourceTags(cache, env.srcs) ELSE cache
        asks   == calls /\ ~cache.fetched
    IN  IF ~env.head.ok
        THEN Propagates(<<headUrl>>, None)
        ELSE IF NothingChanged(stored, head)
        THEN [cursors |-> cursors, file |-> file, cache |-> cache,
              status |-> "ok", result |-> <<>>, requests |-> <<headUrl>>,
              head |-> head.cursor, fetched |-> FALSE, feed |-> FeedFromRaw(EmptyTable)]
        ELSE IF ~env.feed.ok
        THEN Propagates(<<headUrl, latestUrl>>, head.cursor)
        ELSE [cursors |-> table, file |-> disk, cache |-> c2,
              status |-> "ok",
              result |-> FilterFrom(feed.items, 1, tags, sources, buckets, c2.table),
              requests |-> <<headUrl, latestUrl>> \o (IF asks THEN <<SourcesUrl>> ELSE <<>>),
              head |-> head.cursor, fetched |-> TRUE, feed |-> feed]

\* The environments that differ in something _poll_feed reads: a response is
\* drawn only for a request that is made, a save outcome only for a save.
NoEnv == [head |-> Failure, feed |-> Failure, srcs |-> Failure, save |-> "ok"]
PollEnvs(key, tags, sources, buckets, dom) ==
    UNION {
        IF ~h.ok \/ NothingChanged(StoredCursor(key), HeadFromRaw(h.data))
        THEN {[NoEnv EXCEPT !.head = h]}
        ELSE UNION {
            IF ~f.ok THEN {[NoEnv EXCEPT !.head = h, !.feed = f]}
            ELSE LET feed == FeedFromRaw(f.data) IN
                 {[head |-> h, feed |-> f, srcs |-> s, save |-> sv] :
                    s \in (IF CallsGetSourceTags(feed.items, tags, sources, buckets)
                              /\ ~cache.fetched
                           THEN dom.srcs ELSE {Failure}),
                    sv \in (IF SavesCursor(feed) THEN dom.saves ELSE {"ok"})}
            : f \in dom.feeds}
        : h \in dom.heads}

----------------------------------------------------------------------------
(* What the caller of a public method observes                             *)

NoFeed == FeedFromRaw(EmptyTable)

\* No call has returned that the caller has not yet taken the result of.
\* wrote is the outcome of the call's write of the cursor file, "none" when
\* the call did not try to write; value is the cursor handed to a set or the
\* source_id handed to a reset_cursors.
NoCall ==
    [op |-> "none", key |-> None, status |-> "ok", head |-> None,
     fetched |-> FALSE, feed |-> NoFeed, result |-> <<>>, requests |-> <<>>,
     tags |-> Absent, sources |-> Absent, buckets |-> Absent,
     before |-> None, repeat |-> FALSE, raw |-> EmptyTable, wrote |-> "none",
     value |-> None]

\* Not inside watch().
WatchIdle ==
    [pc |-> "idle", tags |-> Absent, sources |-> Absent, buckets |-> {},
     interval |-> 0, items |-> <<>>, next |-> 1, invoked |-> <<>>,
     stop |-> FALSE, failed |-> FALSE, asked |-> FALSE,
     given |-> NoInterval, askedUrl |-> None, ttl |-> Failure, slept |-> {},
     bucketsArg |-> Absent]

Range(seq) == {seq[i] : i \in 1..Len(seq)}

\* Nothing returned yet (or reset_cursors was called since).
NoSeen == [key |-> None, feed |-> NoFeed, result |-> <<>>]

\* Does this poll return again an item that an earlier poll of the same feed
\* key had returned from the very same Feed, the server having served no
\* other Feed on that key and reset_cursors not having been called since?
Repeats(key, out) ==
    /\ out.status = "ok" /\ out.fetched
    /\ seen.key = key /\ seen.feed = out.feed
    /\ Range(out.result) \cap Range(seen.result) # {}

SeenAfter(key, out) ==
    IF out.status = "ok" /\ out.fetched
    THEN IF out.result # <<>> THEN [key |-> key, feed |-> out.feed, result |-> out.result]
         ELSE IF seen.key = key /\ seen.feed # out.feed THEN NoSeen
         ELSE seen
    ELSE seen

----------------------------------------------------------------------------
(* client.py: the public methods, as actions                               *)

\* How many of the requests went to url.
Sends(requests, url) == Cardinality({i \in 1..Len(requests) : requests[i] = url})

\* One call of _poll_feed from a public method: every effect on the client
\* and the observation of the call.
DoPoll(op, headUrl, latestUrl, key, tags, sources, bucketsArg, dom) ==
    LET buckets == DefaultBuckets(bucketsArg) IN
    \E env \in PollEnvs(key, tags, sources, buckets, dom) :
        LET out == PollFeed(headUrl, latestUrl, key, tags, sources, buckets, env) IN
        /\ cursors' = out.cursors
        /\ file' = out.file
        /\ cache' = out.cache
        /\ call' = [op |-> op, key |-> key, status |-> out.status, head |-> out.head,
                    fetched |-> out.fetched, feed |-> out.feed, result |-> out.result,
                    requests |-> out.requests, tags |-> tags, sources |-> sources,
                    buckets |-> bucketsArg, before |-> StoredCursor(key),
                    repeat |-> Repeats(key, out),
                    raw |-> IF out.fetched THEN env.feed.data ELSE EmptyTable,
                    wrote |-> IF out.fetched /\ SavesCursor(out.feed) THEN env.save
                              ELSE "none",
                    value |-> None]
        /\ seen' = SeenAfter(key, out)
        /\ sent' = sent + Sends(out.requests, SourcesUrl)

\* DiffDelta.poll(tags, sources, buckets)
Poll(dom) ==
    /\ watch.pc = "idle" /\ call.op = "none"
    /\ \E tags \in dom.tags, sources \in dom.sources, buckets \in dom.buckets :
           DoPoll("poll", GlobalHeadUrl, GlobalLatestUrl, GlobalKey,
                  tags, sources, buckets, dom)
    /\ UNCHANGED <<enabled, watch, peer>>

\* DiffDelta.poll_source(source_id, buckets)
PollSource(dom) ==
    /\ watch.pc = "idle" /\ call.op = "none"
    /\ \E id \in dom.ids, buckets \in dom.buckets :
           DoPoll("poll_source", SourceHeadUrl(id), SourceLatestUrl(id), SourceKey(id),
                  Absent, Absent, buckets, dom)
    /\ UNCHANGED <<enabled, watch, peer>>

\* DiffDelta.reset_cursors(source_id)
ResetKey(source_id) == IF Truthy(source_id) THEN SourceKey(source_id) ELSE None
ResetCursors(dom) ==
    /\ watch.pc = "idle" /\ call.op = "none"
    /\ \E source_id \in dom.resets :
           /\ IF enabled
              THEN \E sv \in dom.saves :
                     LET t == StoreClear(cursors, ResetKey(source_id)) IN
                     /\ cursors' = t
                     /\ file' = Save(t, file, sv)
                     /\ call' = [NoCall EXCEPT !.op = "reset", !.key = ResetKey(source_id),
                                               !.wrote = sv, !.value = source_id,
                                               !.before = StoredCursor(ResetKey(source_id))]
              ELSE /\ UNCHANGED <<cursors, file>>
                   /\ call' = [NoCall EXCEPT !.op = "reset", !.key = ResetKey(source_id),
                                               !.value = source_id]
    /\ seen' = NoSeen
    /\ UNCHANGED <<enabled, cache, watch, sent, peer>>

\* The caller takes the result (or the exception) of the call that returned.
Return ==
    /\ call.op # "none"
    /\ call' = NoCall
    /\ UNCHANGED <<enabled, cursors, file, cache, seen, watch, sent, peer>>

----------------------------------------------------------------------------
(* cursor.py: the public methods of a CursorStore used on its own, as      *)
(* actions. enabled tells whether the construction has yielded a store.    *)

\* CursorStore(path): a fresh store over the file as it is now; it replaces
\* the store there was.
StoreConstruct ==
    /\ call.op = "none"
    /\ IF LoadRaises(file)
       THEN /\ enabled' = FALSE /\ cursors' = EmptyTable
            /\ call' = [NoCall EXCEPT !.op = "construct", !.status = "raised"]
       ELSE /\ enabled' = TRUE /\ cursors' = Load(file)
            /\ call' = [NoCall EXCEPT !.op = "construct"]
    /\ UNCHANGED <<file, cache, seen, watch, sent, peer>>

\* store.set(key, cursor)
StoreSetCall(dom) ==
    /\ enabled /\ call.op = "none"
    /\ \E key \in dom.keys, cursor \in dom.cursors, sv \in dom.saves :
          LET t == StoreSet(cursors, key, cursor) IN
          /\ cursors' = t
          /\ file' = Save(t, file, sv)
          /\ call' = [NoCall EXCEPT !.op = "set", !.key = key, !.wrote = sv,
                                    !.before = StoreGet(cursors, key), !.value = cursor]
    /\ UNCHANGED <<enabled, cache, seen, watch, sent, peer>>

\* store.clear(key)
StoreClearCall(dom) ==
    /\ enabled /\ call.op = "none"
    /\ \E key \in dom.clears, sv \in dom.saves :
          LET t == StoreClear(cursors, key) IN
          /\ cursors' = t
          /\ file' = Save(t, file, sv)
          /\ call' = [NoCall EXCEPT !.op = "clear", !.key = key, !.wrote = sv,
                                    !.before = StoreGet(cursors, key)]
    /\ UNCHANGED <<enabled, cache, seen, watch, sent, peer>>

\* The table a set or clear of an instance changes and saves: the instance's
\* own self._cursors, as loaded at construction and changed by its own calls
\* since; the file f is not read again.
\* Mutant: the instance reads the file again before it changes the table.
OwnTableReread(t, f) == Load(f)

OwnTable(t, f) == t

\* set(key, cursor) on the second instance over the same file.
PeerSetCall(dom) ==
    /\ call.op = "none"
    /\ \E key \in dom.keys, cursor \in dom.cursors, sv \in dom.saves :
          LET t == StoreSet(OwnTable(peer, file), key, cursor) IN
          /\ peer' = t
          /\ file' = Save(t, file, sv)
          /\ call' = [NoCall EXCEPT !.op = "peer set", !.key = key, !.wrote = sv,
                                    !.before = StoreGet(peer, key), !.value = cursor]
    /\ UNCHANGED <<enabled, cursors, cache, seen, watch, sent>>

\* clear(key) on the second instance over the same file.
PeerClearCall(dom) ==
    /\ call.op = "none"
    /\ \E key \in dom.clears, sv \in dom.saves :
          LET t == StoreClear(OwnTable(peer, file), key) IN
          /\ peer' = t
          /\ file' = Save(t, file, sv)
          /\ call' = [NoCall EXCEPT !.op = "peer clear", !.key = key, !.wrote = sv,
                                    !.before = StoreGet(peer, key)]
    /\ UNCHANGED <<enabled, cursors, cache, seen, watch, sent>>

----------------------------------------------------------------------------
(* client.py: watch                                                        *)

\* Mutant: the derived interval has no floor.
DerivedIntervalNoFloor(h) == h.ttl_sec

\* `interval = max(h.ttl_sec, 60)`
DerivedInterval(h) == IF h.ttl_sec > 60 THEN h.ttl_sec ELSE 60

\* Mutants of the loop's exception handling: an Exception leaves watch; a
\* KeyboardInterrupt is handled like an Exception.
OnExceptionRaise == "raised"
OnKeyboardInterruptRetry == "sleep"

\* `except Exception as e:` - reported, then control falls through to the sleep.
OnException == "sleep"
\* `except KeyboardInterrupt:` - `break`, watch returns.
OnKeyboardInterrupt == "stopped"

\* `except Exception: interval = 900`
FallbackInterval == 900

\* Mutant: the sleep after an iteration that raised is twice as long.
SleepLengthBackoff(w) == IF w.failed THEN 2 * w.interval ELSE w.interval

\* `time.sleep(interval)`: the length of the sleep that ends an iteration.
SleepLength(w) == w.interval

\* How the try block of the iteration ended: normally, in the except clause
\* because poll raised, or in it because the handler raised.
IterationOutcome(w, c) ==
    IF ~w.failed THEN "ok"
    ELSE IF c.status = "raised" THEN "poll raised" ELSE "handler raised"

InLoop(w) == w.pc \in {"poll", "dispatch", "sleep"}

\* watch(callback, tags, sources, interval, buckets) up to the loop: the
\* bucket default and the polling interval. head is the response to the
\* Head request made when no interval is given.
WatchStart(dom) ==
    /\ watch.pc = "idle" /\ call.op = "none"
    /\ \E tags \in dom.tags, sources \in dom.sources, buckets \in dom.buckets,
          interval \in dom.intervals :
          \E head \in (IF ~interval.given THEN dom.ttlHeads ELSE {Failure}) :
             watch' = [watch EXCEPT
                          !.pc = "poll",
                          !.tags = tags, !.sources = sources,
                          !.buckets = DefaultBuckets(buckets),
                          !.bucketsArg = buckets,
                          !.asked = ~interval.given,
                          !.given = interval,
                          !.askedUrl = IF interval.given THEN None ELSE GlobalHeadUrl,
                          !.ttl = head,
                          !.interval =
                              IF interval.given THEN interval.val
                              ELSE IF head.ok THEN DerivedInterval(HeadFromRaw(head.data))
                              ELSE FallbackInterval]
    /\ UNCHANGED <<enabled, cursors, file, cache, call, seen, sent, peer>>

\* One pass of `items = self.poll(tags=tags, sources=sources, buckets=buckets)`
\* and what the loop does with its outcome.
WatchPoll(dom) ==
    /\ watch.pc = "poll"
    /\ DoPoll("poll", GlobalHeadUrl, GlobalLatestUrl, GlobalKey,
              watch.tags, watch.sources, Given(watch.buckets), dom)
    /\ watch' = [watch EXCEPT
                    !.pc = IF call'.status = "raised" THEN OnException
                           ELSE IF call'.result # <<>> THEN "dispatch"
                           ELSE "sleep",
                    !.items = call'.result,
                    !.next = 1,
                    !.invoked = <<>>,
                    !.failed = (call'.status = "raised")]
    /\ UNCHANGED <<enabled, peer>>

\* Mutant: the batch is dispatched from its last item to its first.
DispatchedBackwards(w) == w.items[Len(w.items) + 1 - w.next]

\* `for item in items:` the item of the pass the loop is in.
Dispatched(w) == w.items[w.next]

\* One pass of `for item in items: callback(item)`: the handler returns, or
\* raises an Exception, which ends the try block.
WatchDispatch(dom) ==
    /\ watch.pc = "dispatch" /\ watch.next <= Len(watch.items)
    /\ \E outcome \in dom.handler :
          watch' = [watch EXCEPT
                       !.invoked = Append(@, Dispatched(watch)),
                       !.next = @ + 1,
                       !.failed = (outcome = "raises"),
                       !.pc = IF outcome = "raises" THEN OnException
                              ELSE IF watch.next = Len(watch.items) THEN "sleep"
                              ELSE "dispatch"]
    /\ UNCHANGED <<enabled, cursors, file, cache, call, seen, sent, peer>>

\* `time.sleep(interval)` runs to its end; the loop starts over.
WatchSleep ==
    /\ watch.pc = "sleep"
    /\ watch' = [watch EXCEPT !.pc = "poll", !.failed = FALSE,
                              !.items = <<>>, !.next = 1, !.invoked = <<>>,
                              !.slept = @ \cup {[after |-> IterationOutcome(watch, call),
                                                   len |-> SleepLength(watch)]}]
    /\ call' = NoCall
    /\ UNCHANGED <<enabled, cursors, file, cache, seen, sent, peer>>

\* The requests for the sources document that never came back: those sent
\* less the one that filled the cache.
CutShort(n, c) == n - (IF c.fetched THEN 1 ELSE 0)

\* A KeyboardInterrupt is delivered while the loop polls, runs the handler or
\* sleeps. Inside poll the interrupt lands before the request for the Head
\* returns, or after the cursor was saved (during the filtering): after
\* _get_source_tags returned, before it sent its request, or while that
\* request is under way (the cache is then left unset).
WatchInterrupt(dom) ==
    /\ InLoop(watch)
    /\ \/ /\ watch.pc = "poll"
          /\ \/ UNCHANGED <<cursors, file, cache, seen, sent>>
             \/ \E env \in PollEnvs(GlobalKey, watch.tags, watch.sources, watch.buckets, dom) :
                  LET out == PollFeed(GlobalHeadUrl, GlobalLatestUrl, GlobalKey,
                                      watch.tags, watch.sources, watch.buckets, env) IN
                  /\ out.fetched
                  /\ cursors' = out.cursors /\ file' = out.file
                  /\ \/ cache' = out.cache /\ sent' = sent + Sends(out.requests, SourcesUrl)
                     \/ cache' = cache /\ sent' = sent
                     \/ /\ Sends(out.requests, SourcesUrl) > 0 /\ CutShort(sent, cache) < MaxCutShort
                        /\ cache' = cache /\ sent' = sent + 1
                  /\ UNCHANGED seen
          /\ watch' = [watch EXCEPT !.pc = OnKeyboardInterrupt, !.stop = TRUE]
       \/ /\ watch.pc = "dispatch"
          /\ watch' = [watch EXCEPT !.pc = OnKeyboardInterrupt, !.stop = TRUE,
                                    !.invoked = Append(@, Dispatched(watch))]
          /\ UNCHANGED <<cursors, file, cache, seen, sent>>
       \/ /\ watch.pc = "sleep"
          /\ watch' = [watch EXCEPT !.pc = OnKeyboardInterrupt, !.stop = TRUE]
          /\ UNCHANGED <<cursors, file, cache, seen, sent>>
    /\ UNCHANGED <<enabled, call, peer>>

\* watch has returned to its caller after the `break`.
WatchReturn ==
    /\ watch.pc = "stopped"
    /\ watch' = WatchIdle
    /\ call' = NoCall
    /\ UNCHANGED <<enabled, cursors, file, cache, seen, sent, peer>>

----------------------------------------------------------------------------
(* The environment of the protocol specification                           *)

RawItem(source) == [source |-> source, id |-> "i1"]

\* Raw Head documents: with a cursor, or without the field.
RawHeads == {[cursor |-> c] : c \in Cursors} \cup {EmptyTable}

\* Raw Feed documents over the bucket layouts B: with a cursor, or without.
RawFeeds(B) == {[cursor |-> c, buckets |-> b] : c \in Cursors, b \in B}
                   \cup {[buckets |-> b] : b \in B}

\* Raw sources documents.
SourcesDocA ==
    [sources |-> <<[source_id |-> "s1", tags |-> {"security"}],
                   [source_id |-> "s2", tags |-> {"finance"}]>>]
SourcesDocB ==
    [sources |-> <<[source_id |-> "s1", tags |-> {"security", "finance"}],
                   [source_id |-> "s1"]>>]

Responses(docs) == {Failure} \cup {Response(d) : d \in docs}

\* One layout: a new item of s1 and a removed item of s2.
ProtoLayouts ==
    {[new |-> <<RawItem("s1")>>, updated |-> <<>>, removed |-> <<RawItem("s2")>>]}

ProtoDom ==
    [heads   |-> Responses(RawHeads),
     feeds   |-> Responses(RawFeeds(ProtoLayouts)),
     srcs    |-> Responses({SourcesDocA}),
     saves   |-> SaveOutcomes,
     tags    |-> {Absent, Given({"finance"})},
     sources |-> {Absent},
     buckets |-> {Absent},
     ids     |-> {"s1"},
     resets  |-> {None, "", "s1"}]

\* The cursor files a client can be constructed over.
FeedKeys == {GlobalKey} \cup {SourceKey(id) : id \in {"s1"}}
InitTables ==
    {EmptyTable,
     [k \in {GlobalKey} |-> ""],
     [k \in {GlobalKey} |-> "c1"],
     [k \in FeedKeys |-> IF k = GlobalKey THEN "c2" ELSE "c1"]}
InitFiles == {FileMissing, FileCorrupt, FileNonDict} \cup {FileDict(t) : t \in InitTables}

\* DiffDelta.__init__ / CursorStore.__init__
Init ==
    /\ enabled \in BOOLEAN
    /\ file \in InitFiles
    /\ cursors = IF enabled THEN Load(file) ELSE EmptyTable
    /\ cache = CacheUnset
    /\ call = NoCall
    /\ seen = NoSeen
    /\ watch = WatchIdle
    /\ sent = 0
    /\ peer = EmptyTable

Next ==
    \/ Poll(ProtoDom)
    \/ PollSource(ProtoDom)
    \/ ResetCursors(ProtoDom)
    \/ Return

Spec == Init /\ [][Next]_vars

----------------------------------------------------------------------------
(* The watch loop's specification                                          *)

\* A batch of two: a new item of s1 and an updated item of s2.
WatchLayouts ==
    {[new |-> <<RawItem("s1")>>, updated |-> <<RawItem("s2")>>, removed |-> <<>>]}

\* Raw Head documents answering the interval question: ttl_sec below the
\* floor, on it, above it, and missing.
TtlHeads == {[cursor |-> "c1", ttl_sec |-> t] : t \in {30, 60, 120}}
               \cup {[cursor |-> "c1"]}

WatchDom ==
    [heads     |-> Responses(RawHeads),
     feeds     |-> Responses(RawFeeds(WatchLayouts)),
     srcs      |-> Responses({SourcesDocA}),
     saves     |-> {"ok"},
     tags      |-> {Absent, Given({"security"})},
     sources   |-> {Absent},
     buckets   |-> {Absent},
     intervals |-> {NoInterval, GivenInterval(5)},
     ttlHeads  |-> Responses(TtlHeads),
     handler   |-> {"ok", "raises"}]

\* A client over no cursor file, or over one holding a global cursor.
InitWatch ==
    /\ Init
    /\ file \in {FileMissing, FileDict([k \in {GlobalKey} |-> "c1"])}

NextWatch ==
    \/ WatchStart(WatchDom)
    \/ WatchPoll(WatchDom)
    \/ WatchDispatch(WatchDom)
    \/ WatchSleep
    \/ WatchInterrupt(WatchDom)

SpecWatch == InitWatch /\ [][NextWatch]_vars

----------------------------------------------------------------------------
(* The filter's specification: one poll of a fresh client, over every       *)
(* filter combination and every Feed of up to MaxItems items                *)

SeqsUpTo(S, n) == UNION {[1..k -> S] : k \in 0..n}
RawItems == {RawItem(s) : s \in SourceIds}
Layouts(n) ==
    {b \in [new : SeqsUpTo(RawItems, n), updated : SeqsUpTo(RawItems, n),
            removed : SeqsUpTo(RawItems, n)] :
        Len(b.new) + Len(b.updated) + Len(b.removed) <= n}

Optional(S) == {Absent} \cup {Given(x) : x \in SUBSET S}

FilterDom ==
    [heads   |-> {Response([cursor |-> "c1"])},
     feeds   |-> {Response([cursor |-> "c2", buckets |-> b]) : b \in Layouts(MaxItems)},
     srcs    |-> Responses({SourcesDocA, SourcesDocB}),
     saves   |-> {"ok"},
     tags    |-> Optional(TagNames),
     sources |-> Optional(SourceIds),
     buckets |-> Optional(BucketNames)]

InitFilter == Init /\ enabled /\ file = FileMissing

NextFilter == Poll(FilterDom)

SpecFilter == InitFilter /\ [][NextFilter]_vars

----------------------------------------------------------------------------
(* The bucket filter's specification: poll, poll_source and watch of a      *)
(* fresh client against a Feed with an item in each bucket                  *)

BucketLayouts ==
    {[new |-> <<RawItem("s1")>>, updated |-> <<RawItem("s2")>>,
      removed |-> <<RawItem("s1")>>]}

BucketDom ==
    [heads     |-> {Response([cursor |-> c]) : c \in Cursors},
     feeds     |-> {Response([cursor |-> c, buckets |-> b]) : c \in Cursors, b \in BucketLayouts},
     srcs      |-> {Response(SourcesDocA)},
     saves     |-> {"ok"},
     tags      |-> {Absent},
     sources   |-> {Absent},
     buckets   |-> Optional(BucketNames),
     ids       |-> {"s1"},
     intervals |-> {GivenInterval(5)},
     ttlHeads  |-> {Failure},
     handler   |-> {"ok"}]

InitBuckets == Init /\ file = FileMissing

NextBuckets ==
    \/ Poll(BucketDom)
    \/ PollSource(BucketDom)
    \/ Return
    \/ WatchStart(BucketDom)
    \/ WatchPoll(BucketDom)
    \/ WatchDispatch(BucketDom)
    \/ WatchSleep
    \/ WatchInterrupt(BucketDom)

SpecBuckets == InitBuckets /\ [][NextBuckets]_vars

----------------------------------------------------------------------------
(* The sources table's specification: polls and watches of one client, with *)
(* and without a tags filter, the sources request answered, failing or cut  *)
(* short by a stop signal                                                   *)

SourcesLayouts ==
    {[new |-> <<RawItem("s1")>>, updated |-> <<RawItem("s2")>>, removed |-> <<>>]}

SourcesDom ==
    [heads     |-> {Response([cursor |-> "c1"])},
     feeds     |-> {Response(d) : d \in RawFeeds(SourcesLayouts)},
     srcs      |-> Responses({SourcesDocA}),
     saves     |-> {"ok"},
     tags      |-> {Absent, Given({"security"})},
     sources   |-> {Absent},
     buckets   |-> {Absent},
     ids       |-> {"s1"},
     intervals |-> {GivenInterval(5)},
     ttlHeads  |-> {Failure},
     handler   |-> {"ok"}]

InitSources == Init /\ file = FileMissing

NextSources ==
    \/ Poll(SourcesDom)
    \/ PollSource(SourcesDom)
    \/ Return
    \/ WatchStart(SourcesDom)
    \/ WatchPoll(SourcesDom)
    \/ WatchDispatch(SourcesDom)
    \/ WatchSleep
    \/ WatchInterrupt(SourcesDom)
    \/ WatchReturn

SpecSources == InitSources /\ [][NextSources]_vars

----------------------------------------------------------------------------
(* The cursor store's specification: stores constructed over one path, one *)
(* after the other, their set and clear calls, and the global polls of a   *)
(* client that holds the store                                             *)

StoreKeys == {GlobalKey, SourceKey("s1")}

StoreDom ==
    [keys    |-> StoreKeys,
     cursors |-> CursorVals,
     clears  |-> {None, ""} \cup StoreKeys,
     saves   |-> SaveOutcomes,
     heads   |-> {Response(d) : d \in RawHeads},
     feeds   |-> {Response(d) : d \in RawFeeds(ProtoLayouts)},
     srcs    |-> {Failure},
     tags    |-> {Absent},
     sources |-> {Absent},
     buckets |-> {Absent}]

StoreFiles == InitFiles \cup {FileUndecodable}

\* No store constructed yet.
InitStore ==
    /\ enabled = FALSE
    /\ file \in StoreFiles
    /\ cursors = EmptyTable
    /\ cache = CacheUnset
    /\ call = NoCall
    /\ seen = NoSeen
    /\ watch = WatchIdle
    /\ sent = 0
    /\ peer = EmptyTable

NextStore ==
    \/ StoreConstruct
    \/ StoreSetCall(StoreDom)
    \/ StoreClearCall(StoreDom)
    \/ (enabled /\ Poll(StoreDom))
    \/ Return

SpecStore == InitStore /\ [][NextStore]_vars

----------------------------------------------------------------------------
(* The shared file's specification: two CursorStore instances constructed  *)
(* over one file, and any interleaving of their set and clear calls        *)

SharedDom ==
    [keys    |-> StoreKeys,
     cursors |-> Cursors,
     clears  |-> {None} \cup StoreKeys,
     saves   |-> {"ok", "fail"}]

\* Both instances have loaded the same file.
InitShared ==
    /\ enabled = TRUE
    /\ file \in {FileMissing, FileDict([k \in {GlobalKey} |-> "c1"])}
    /\ cursors = Load(file)
    /\ peer = Load(file)
    /\ cache = CacheUnset
    /\ call = NoCall
    /\ seen = NoSeen
    /\ watch = WatchIdle
    /\ sent = 0

NextShared ==
    \/ StoreSetCall(SharedDom)
    \/ StoreClearCall(SharedDom)
    \/ PeerSetCall(SharedDom)
    \/ PeerClearCall(SharedDom)
    \/ Return

SpecShared == InitShared /\ [][NextShared]_vars

----------------------------------------------------------------------------
(* The quiet server's specification: the server answers every request, the *)
(* Head and the Feed carry the cursor StableCursor; a client with a cursor  *)
(* store, over any cursor file, polls again and again or runs watch without *)
(* being stopped                                                           *)

StableCursor == "c2"

QuietDom ==
    [heads     |-> {Response([cursor |-> StableCursor])},
     feeds     |-> {Response([cursor |-> StableCursor, buckets |-> b]) : b \in WatchLayouts},
     srcs      |-> {Response(SourcesDocA)},
     saves     |-> SaveOutcomes,
     tags      |-> {Absent, Given({"security"})},
     sources   |-> {Absent},
     buckets   |-> {Absent},
     intervals |-> {NoInterval, GivenInterval(5)},
     ttlHeads  |-> {Response([cursor |-> StableCursor, ttl_sec |-> 120])},
     handler   |-> {"ok", "raises"}]

InitQuiet == Init /\ enabled

NextQuiet ==
    \/ Poll(QuietDom)
    \/ Return
    \/ WatchStart(QuietDom)
    \/ WatchPoll(QuietDom)
    \/ WatchDispatch(QuietDom)
    \/ WatchSleep

\* The caller keeps polling and a running watch keeps going: some step of
\* the client is always taken.
SpecQuiet == InitQuiet /\ [][NextQuiet]_vars /\ WF_vars(NextQuiet)

----------------------------------------------------------------------------
(* Properties of the poll engine                                           *)

IsPoll(c) == c.op \in {"poll", "poll_source"}

\* The head and latest URLs a poll of the call's feed key must use.
UsesHeadUrl(c, url) ==
    \/ c.key = GlobalKey /\ url = GlobalHeadUrl
    \/ \E id \in SourceIds : c.key = SourceKey(id) /\ url = SourceHeadUrl(id)
UsesLatestUrl(c, url) ==
    \/ c.key = GlobalKey /\ url = GlobalLatestUrl
    \/ \E id \in SourceIds : c.key = SourceKey(id) /\ url = SourceLatestUrl(id)

\* The Head request was the only request of the call, and it returned [].
OnlyHeadAndEmpty(c) ==
    /\ c.status = "ok" /\ c.result = <<>>
    /\ Len(c.requests) = 1 /\ UsesHeadUrl(c, c.requests[1])

\* C1 as stated: whenever a poll finds a cursor stored for its key that
\* equals the cursor of the Head it fetched, it returns [] after the Head
\* request alone.
C1_StoredEqualsHead ==
    (IsPoll(call) /\ call.head # None /\ call.before # None /\ call.before = call.head)
        => OnlyHeadAndEmpty(call)

\* C1 amended: whenever a poll finds a non-empty cursor stored for its key
\* that equals the cursor of the Head it fetched, it returns [] after the
\* Head request alone (no latest, no sources request).
C1_NonEmptyStoredEqualsHead ==
    (IsPoll(call) /\ call.head # None /\ Truthy(call.before) /\ call.before = call.head)
        => OnlyHeadAndEmpty(call)

C1_Witness ==
    /\ IsPoll(call) /\ Truthy(call.before) /\ call.before = call.head
    /\ call.requests = <<GlobalHeadUrl>>

\* C2: a poll of a key with no stored cursor whose Head fetch succeeded
\* requests the full Feed of that key next, whatever cursor the Head carries.
C2_NoCursorAlwaysFetches ==
    (IsPoll(call) /\ call.before = None /\ call.head # None)
        => /\ Len(call.requests) >= 2
           /\ UsesLatestUrl(call, call.requests[2])

C2_Witness ==
    /\ enabled /\ IsPoll(call) /\ call.before = None /\ Truthy(call.head)
    /\ call.fetched /\ call.feed.cursor = call.head

\* C3 as stated: after a poll that fetched the Feed with a non-empty cursor,
\* the cursor stored for the poll's key is the Feed's cursor.
C3_CursorAdvances ==
    (IsPoll(call) /\ call.fetched /\ call.feed.cursor # "")
        => StoredCursor(call.key) = call.feed.cursor

\* C3 amended: on a client with a cursor store, after a poll that fetched
\* the Feed with a non-empty cursor, the cursor stored for the poll's key is
\* the Feed's cursor, whatever the filters kept.
C3_CursorAdvancesIfEnabled ==
    (enabled /\ IsPoll(call) /\ call.fetched /\ call.feed.cursor # "")
        => StoredCursor(call.key) = call.feed.cursor

\* Zero items pass, the sources request failed, a different cursor was stored.
C3_Witness ==
    /\ enabled /\ IsPoll(call) /\ call.fetched /\ call.feed.cursor # ""
    /\ call.result = <<>> /\ ListTruthy(call.tags)
    /\ SourcesUrl \in Range(call.requests) /\ cache.table = EmptyTable
    /\ Truthy(call.before) /\ call.before # call.feed.cursor
    /\ StoredCursor(call.key) = call.feed.cursor

\* C4: the table starts as what the cursor file held, and every step that
\* gives a feed key a new stored cursor is a poll of that key that fetched a
\* Feed from the key's latest URL and stores that Feed's cursor; so no stored
\* cursor ever comes from a Head.
C4_CursorOnlyFromFeed ==
    /\ cursors = (IF enabled THEN Load(file) ELSE EmptyTable)
    /\ [][\A k \in DOMAIN cursors' :
             (k \notin DOMAIN cursors \/ cursors'[k] # cursors[k])
                 => /\ IsPoll(call') /\ call'.key = k /\ call'.fetched
                    /\ cursors'[k] = call'.feed.cursor
                    /\ \E i \in 1..Len(call'.requests) :
                           UsesLatestUrl(call', call'.requests[i])]_vars

\* The Head carried another cursor than the Feed, and the Feed's was stored.
C4_Witness ==
    /\ IsPoll(call) /\ call.fetched /\ Truthy(call.head)
    /\ call.head # call.feed.cursor
    /\ call.before # call.feed.cursor
    /\ StoredCursor(call.key) = call.feed.cursor

\* The Head request failed / the Feed request failed.
HeadFailed(c) == IsPoll(c) /\ c.head = None
FeedFailed(c) == IsPoll(c) /\ c.head # None /\ ~c.fetched /\ Len(c.requests) >= 2

\* C5: a poll whose Head or Feed request fails raises to the caller, returns
\* no items and leaves the cursor table and the cursor file as they were;
\* after a failed Head request no other request is made.
C5_FailedPollChangesNothing ==
    [][(HeadFailed(call') \/ FeedFailed(call'))
          => /\ call'.status = "raised" /\ call'.result = <<>>
             /\ cursors' = cursors /\ file' = file
             /\ (HeadFailed(call') => Len(call'.requests) = 1)]_vars

C5_Witness ==
    /\ enabled /\ FeedFailed(call) /\ call.status = "raised"
    /\ Truthy(call.before) /\ Truthy(call.head) /\ call.before # call.head

\* C9 as stated, for a Feed with a non-empty cursor c: on a client with a
\* cursor store, a poll never returns an item again that an earlier poll of
\* the same key returned from the Feed with cursor c, while the server serves
\* that Feed and reset_cursors is not called.
C9_NeverSeenTwice == ~(enabled /\ call.repeat /\ Truthy(call.feed.cursor))

----------------------------------------------------------------------------
(* Properties of the filter                                                *)

\* The raw Feed's items in the order new, updated, removed, each bucket in
\* the order of the document, labelled with the bucket they were read from.
Labelled(raws, bucket) ==
    [i \in 1..Len(raws) |-> [source |-> raws[i].source, id |-> raws[i].id, bucket |-> bucket]]
InFeedOrder(raw) ==
    Labelled(raw.buckets.new, "new") \o Labelled(raw.buckets.updated, "updated")
        \o Labelled(raw.buckets.removed, "removed")

\* C6 as stated: the returned list is the subsequence, in the Feed's order,
\* of the items whose bucket is in the bucket filter, whose source is in the
\* sources filter unless that filter is absent, and whose source has a tag of
\* the tags filter in the source->tags table unless that filter is absent.
C6_ExactSubsequence ==
    LET Keeps(item) ==
            /\ item.bucket \in DefaultBuckets(call.buckets)
            /\ (~call.sources.given \/ item.source \in call.sources.vals)
            /\ (~call.tags.given
                   \/ \E t \in call.tags.vals : t \in DictGet(cache.table, item.source, {}))
    IN  (IsPoll(call) /\ call.fetched)
            => call.result = SelectSeq(InFeedOrder(call.raw), Keeps)

\* C6 amended: the same with "absent or empty" for "absent": an empty
\* sources list and an empty tags list filter nothing out.
C6_ExactSubsequenceEmptyAsAbsent ==
    LET Keeps(item) ==
            /\ item.bucket \in DefaultBuckets(call.buckets)
            /\ (~call.sources.given \/ call.sources.vals = {}
                   \/ item.source \in call.sources.vals)
            /\ (~call.tags.given \/ call.tags.vals = {}
                   \/ \E t \in call.tags.vals : t \in DictGet(cache.table, item.source, {}))
    IN  (IsPoll(call) /\ call.fetched)
            => call.result = SelectSeq(InFeedOrder(call.raw), Keeps)

\* All three filters at work: of two items the second alone is returned.
C6_Witness ==
    /\ IsPoll(call) /\ call.fetched
    /\ ListTruthy(call.tags) /\ ListTruthy(call.sources) /\ call.buckets.given
    /\ Len(call.feed.items) = 2 /\ call.result = <<call.feed.items[2]>>
    /\ call.feed.items[1].bucket \in call.buckets.vals
    /\ call.feed.items[1].source \in call.sources.vals

----------------------------------------------------------------------------
(* Properties of the watch loop                                            *)

\* C7: the loop is left only by a stop signal; an iteration in which the
\* poll or the handler raised ends in the sleep, and a sleep that is not
\* interrupted is followed by the next poll.
C7_OnlyCancellationEndsWatch ==
    /\ [][(InLoop(watch) /\ ~InLoop(watch')) => (watch'.stop /\ ~watch.stop)]_vars
    /\ [][(InLoop(watch) /\ watch'.failed /\ ~watch'.stop) => watch'.pc = "sleep"]_vars
    /\ [][(watch.pc = "sleep" /\ ~watch'.stop) => watch'.pc = "poll"]_vars

\* The poll raised, nothing stopped the loop, and the loop is in its sleep.
C7_Witness ==
    /\ watch.pc = "sleep" /\ watch.failed /\ call.status = "raised" /\ ~watch.stop

\* C8 as stated: when the dispatch of a batch is over, the handler has been
\* invoked for every item of the batch, also when an invocation raised.
C8_EveryItemDispatched ==
    (watch.pc = "sleep" /\ call.status = "ok" /\ ~watch.stop)
        => watch.invoked = watch.items

\* C10: a stop signal delivered while the loop polls, dispatches or sleeps
\* makes watch return at once (from the sleep without the sleep ending), and
\* once stopped the client does nothing more.
C10_StopEndsWatch ==
    /\ [][(InLoop(watch) /\ watch'.stop) => watch'.pc = "stopped"]_vars
    /\ [][watch.stop => (watch'.pc = "stopped" /\ call' = call /\ cursors' = cursors
                           /\ watch'.invoked = watch.invoked)]_vars

C10_Witness ==
    /\ watch.pc = "stopped" /\ watch.stop
    /\ Len(watch.invoked) = 1 /\ Len(watch.items) = 2

\* C11: every sleep of the loop has the length of the one interval fixed
\* before the loop, whether the iteration before it ended normally, with
\* poll raising or with the handler raising; an iteration that raised goes to
\* the sleep, and a poll is only ever started from the start of watch or from
\* the end of a sleep, so a failing iteration is followed by one sleep of the
\* normal interval and then one poll.
C11_FlatRetry ==
    /\ [](\A s \in watch.slept : s.len = watch.interval)
    /\ [][InLoop(watch) => watch'.interval = watch.interval]_vars
    /\ [][(watch.pc = "sleep" /\ watch'.pc = "poll")
            => watch'.slept = watch.slept \cup
                  {[after |-> IterationOutcome(watch, call), len |-> watch.interval]}]_vars
    /\ [][(InLoop(watch) /\ watch'.failed /\ ~watch'.stop) => watch'.pc = "sleep"]_vars
    /\ [][(watch'.pc = "poll" /\ watch' # watch) => watch.pc \in {"idle", "sleep"}]_vars
    /\ [][(watch.pc = "poll" /\ watch' # watch) => watch'.pc # "poll"]_vars

\* The loop has slept after a normal iteration, after one in which poll
\* raised and after one in which the handler raised, and a poll after these
\* sleeps has returned items.
C11_Witness ==
    /\ watch.pc = "dispatch" /\ call.status = "ok"
    /\ {s.after : s \in watch.slept} = {"ok", "poll raised", "handler raised"}

\* C12: without an interval argument watch requests the global Head and
\* uses max(ttl_sec, 60) of it, 900 when the request fails or the Head has
\* no ttl_sec, so never less than 60; an interval argument is used as given
\* and no Head is requested.
C12_IntervalDerivation ==
    watch.pc # "idle" =>
        IF watch.given.given
        THEN watch.interval = watch.given.val /\ ~watch.asked /\ watch.askedUrl = None
        ELSE /\ watch.asked /\ watch.askedUrl = "/diff/head.json"
             /\ watch.interval >= 60
             /\ watch.interval =
                    IF watch.ttl.ok /\ "ttl_sec" \in DOMAIN watch.ttl.data
                    THEN IF watch.ttl.data.ttl_sec >= 60 THEN watch.ttl.data.ttl_sec ELSE 60
                    ELSE 900

\* No interval was given and the Head's ttl_sec is below the floor.
C12_Witness ==
    /\ InLoop(watch) /\ ~watch.given.given /\ watch.ttl.ok
    /\ "ttl_sec" \in DOMAIN watch.ttl.data /\ watch.ttl.data.ttl_sec < 60
    /\ watch.interval = 60

----------------------------------------------------------------------------
(* Properties of the bucket default                                        *)

NoRemoved(items) == \A i \in 1..Len(items) : items[i].bucket \in {"new", "updated"}

\* C13: a poll or poll_source called without buckets returns only items of
\* the Feed's new and updated sections, and a watch called without buckets
\* polls and dispatches only such items; whatever the argument, an item of
\* the removed section is returned or dispatched only when the argument
\* lists "removed".
C13_RemovedIsOptIn ==
    /\ (IsPoll(call) /\ watch.pc = "idle" /\ ~call.buckets.given) => NoRemoved(call.result)
    /\ (IsPoll(call) /\ watch.pc = "idle" /\ "removed" \notin call.buckets.vals)
           => NoRemoved(call.result)
    /\ (watch.pc # "idle" /\ ~watch.bucketsArg.given)
           => (watch.buckets = {"new", "updated"} /\ NoRemoved(watch.items)
                  /\ NoRemoved(watch.invoked))
    /\ (watch.pc # "idle" /\ "removed" \notin watch.bucketsArg.vals)
           => (NoRemoved(watch.items) /\ NoRemoved(watch.invoked))

\* A watch called without buckets has dispatched the new and the updated
\* item of a Feed that also has a removed item.
C13_Witness ==
    /\ watch.pc = "sleep" /\ ~watch.bucketsArg.given
    /\ Len(call.feed.items) = 3 /\ call.feed.items[3].bucket = "removed"
    /\ Len(watch.invoked) = 2

----------------------------------------------------------------------------
(* Properties of the sources table                                         *)

\* C14 as stated: over the lifetime of a client, through any polls and watch
\* iterations, at most one request for the sources document is sent.
C14_SourcesRequestedOnce == sent <= 1

\* C14 amended: a poll sends at most one request for the sources document;
\* a poll that sent one and returned leaves the table memoized, also when
\* the request failed; and once a table is memoized no request for the
\* document is sent again and the table never changes.
C14_SourcesAnsweredOnce ==
    /\ [][Sends(call'.requests, SourcesUrl) <= 1]_vars
    /\ [][(call' # call /\ Sends(call'.requests, SourcesUrl) = 1) => cache'.fetched]_vars
    /\ [][cache.fetched => (sent' = sent /\ cache' = cache)]_vars
    /\ [][(cache.fetched /\ call' # call) => Sends(call'.requests, SourcesUrl) = 0]_vars

\* A tag-filtered poll has fetched a Feed after the one sources request of
\* the client had failed, and has sent no request for the document.
C14_Witness ==
    /\ IsPoll(call) /\ call.fetched /\ ListTruthy(call.tags)
    /\ cache.fetched /\ cache.table = EmptyTable
    /\ Sends(call.requests, SourcesUrl) = 0 /\ sent = 1

\* The request for the sources document has failed. The one document this
\* specification's server answers with has two sources, so an empty memoized
\* table is the one a failed request leaves.
SourcesFailed == cache.fetched /\ cache.table = EmptyTable

\* C15 as stated: after a failed sources request, the poll that sent the
\* request has not failed, it and every later poll with a non-empty tags
\* filter return no items, and a poll that fetched a Feed leaves that Feed's
\* cursor stored for its key.
C15_FailedSourcesExcludeAll ==
    (IsPoll(call) /\ ListTruthy(call.tags) /\ SourcesFailed)
        => /\ call.result = <<>>
           /\ (Sends(call.requests, SourcesUrl) = 1 => call.status = "ok")
           /\ (call.fetched => StoredCursor(call.key) = call.feed.cursor)

\* C15 amended: the same, the cursor being stored on a client that has a
\* cursor store and for a Feed whose cursor is not empty; otherwise the
\* cursor table is left as it was.
C15_FailedSourcesExcludeAllIfStored ==
    /\ []((IsPoll(call) /\ ListTruthy(call.tags) /\ SourcesFailed)
            => /\ call.result = <<>>
               /\ (Sends(call.requests, SourcesUrl) = 1 => call.status = "ok")
               /\ (call.fetched /\ enabled /\ Truthy(call.feed.cursor))
                      => StoredCursor(call.key) = call.feed.cursor
               /\ (call.fetched /\ ~(enabled /\ Truthy(call.feed.cursor)))
                      => StoredCursor(call.key) = call.before)
    /\ [][(call' # call /\ IsPoll(call') /\ Sends(call'.requests, SourcesUrl) = 1
             /\ SourcesFailed')
            => (\A id \in SourceIds : DictGet(cache'.table, id, {}) = {})]_vars

\* The poll that sent the failing sources request: its Feed has two items of
\* the default buckets, it returned none, and the Feed's cursor is stored.
C15_Witness ==
    /\ IsPoll(call) /\ ListTruthy(call.tags) /\ SourcesFailed
    /\ Sends(call.requests, SourcesUrl) = 1 /\ call.status = "ok"
    /\ Len(call.feed.items) = 2 /\ call.result = <<>>
    /\ enabled /\ Truthy(call.feed.cursor) /\ call.before # call.feed.cursor
    /\ StoredCursor(call.key) = call.feed.cursor

----------------------------------------------------------------------------
(* Properties of the cursor store                                          *)

IsStoreWrite(c) == c.op \in {"set", "clear"}

\* What get(key) returns on a fresh CursorStore constructed over file f.
FreshGet(f, key) == StoreGet(Load(f), key)

\* C16: after a set or clear whose write succeeded - whatever calls came
\* before it, their writes succeeding or not - the construction of a fresh
\* CursorStore over the same path does not fail, and the fresh store's
\* get(key) is that of the original store for every key: the file holds the
\* complete table.
C16_RoundTrip ==
    (enabled /\ IsStoreWrite(call) /\ call.wrote = "ok")
        => /\ ~LoadRaises(file)
           /\ \A key \in StoreKeys \cup {"other"} :
                  FreshGet(file, key) = StoreGet(cursors, key)

\* A clear of one key, written successfully, of a store that keeps a cursor
\* under another key.
C16_Witness ==
    /\ enabled /\ call.op = "clear" /\ call.wrote = "ok"
    /\ call.key = GlobalKey /\ call.before = "c1"
    /\ StoreGet(cursors, SourceKey("s1")) = "c2"
    /\ FreshGet(file, GlobalKey) = None /\ FreshGet(file, SourceKey("s1")) = "c2"

\* The file is missing or its content is not valid JSON.
NotJson(f) == f.kind \in {"missing", "corrupt", "undecodable"}

\* C17 as stated: the construction of a CursorStore over a missing file or
\* over a file that is not valid JSON does not fail and yields the empty
\* table, and a set that follows and whose write succeeds leaves a valid file
\* holding exactly the one new entry.
C17_CorruptFileStartsEmpty ==
    /\ []((call.op = "construct" /\ NotJson(file))
            => (call.status = "ok" /\ enabled /\ cursors = EmptyTable))
    /\ [][(enabled /\ NotJson(file) /\ cursors = EmptyTable
             /\ call' # call /\ call'.op = "set" /\ call'.wrote = "ok")
            => (file'.kind = "dict" /\ DOMAIN file'.data = {call'.key}
                   /\ file'.data = cursors')]_vars

\* The write of a set or clear call has failed.
WriteFailed(c) == IsStoreWrite(c) /\ c.wrote # "ok"

\* The table after the call is the table before it with the call's change.
ReflectsChange(c, before, after) ==
    IF c.op = "set"
    THEN /\ StoreGet(after, c.key) = c.value
         /\ \A k \in DOMAIN before \cup DOMAIN after :
                k # c.key => StoreGet(after, k) = StoreGet(before, k)
    ELSE IF Truthy(c.key)
    THEN /\ StoreGet(after, c.key) = None
         /\ \A k \in DOMAIN before \cup DOMAIN after :
                k # c.key => StoreGet(after, k) = StoreGet(before, k)
    ELSE after = EmptyTable

\* The table holds a cursor that a store constructed over the file would
\* not have: the write that should have persisted it failed.
NotDurable(t, f, key) == Truthy(StoreGet(t, key)) /\ FreshGet(f, key) # StoreGet(t, key)

\* C18 as stated: a set or clear whose write fails does not raise, leaves the
\* table with the change made and the file with the content it had.
C18_FailedWriteKeepsFile ==
    [][(call' # call /\ WriteFailed(call'))
          => /\ call'.status = "ok"
             /\ ReflectsChange(call', cursors, cursors')
             /\ file' = file]_vars

\* C18 amended: a set or clear whose write fails does not raise and leaves
\* the table with the change made; the file has the content it had when the
\* write failed before the file was opened, and is no valid JSON when it
\* failed after; every set and clear tries to write, whatever happened to the
\* writes before it, and one that succeeds leaves the file holding the whole
\* table; a poll that finds a cursor stored that the file does not hold, and
\* a Head with that cursor, returns [] after the Head request alone.
C18_FailedWriteKeepsTable ==
    /\ [][(call' # call /\ WriteFailed(call'))
            => /\ call'.status = "ok"
               /\ ReflectsChange(call', cursors, cursors')
               /\ (call'.wrote = "fail" => file' = file)
               /\ (call'.wrote = "fail_truncated"
                      => (file'.kind = "corrupt" /\ Load(file') = EmptyTable))]_vars
    /\ [][(call' # call /\ IsStoreWrite(call'))
            => /\ call'.wrote \in SaveOutcomes
               /\ (call'.wrote = "ok" => file' = FileDict(cursors'))]_vars
    /\ [][(call' # call /\ IsPoll(call') /\ call'.head # None
             /\ NotDurable(cursors, file, call'.key)
             /\ call'.head = StoreGet(cursors, call'.key))
            => (OnlyHeadAndEmpty(call') /\ cursors' = cursors)]_vars

\* A poll has returned [] after the Head request alone, on a cursor whose
\* write to the file had failed.
C18_Witness ==
    /\ enabled /\ IsPoll(call) /\ OnlyHeadAndEmpty(call)
    /\ call.before = call.head /\ NotDurable(cursors, file, call.key)
    /\ file.kind = "dict"

----------------------------------------------------------------------------
(* Properties of a client without a cursor store                           *)

\* C19: on a client constructed with cursor_path=None, whatever cursor file
\* there is, every poll whose Head request succeeded went on to request the
\* Feed of its key, found no stored cursor and tried no write; the cursor
\* table stays empty and the file is never written; reset_cursors changes
\* nothing and tries no write.
C19_DisabledStore ==
    /\ [](~enabled => cursors = EmptyTable)
    /\ []((~enabled /\ IsPoll(call) /\ call.head # None)
            => /\ Len(call.requests) >= 2 /\ UsesLatestUrl(call, call.requests[2])
               /\ call.before = None /\ call.wrote = "none"
               /\ (call.status = "ok" => call.fetched))
    /\ []((~enabled /\ call.op = "reset") => call.wrote = "none")
    /\ [][~enabled => (file' = file /\ cursors' = cursors /\ ~enabled')]_vars

\* Over a cursor file that holds the Head's cursor for the key, a poll of a
\* client without a store has fetched the Feed and returned an item that the
\* poll before it had returned from the same Feed.
C19_Witness ==
    /\ ~enabled /\ IsPoll(call) /\ call.fetched /\ call.repeat
    /\ Truthy(call.head) /\ FreshGet(file, call.key) = call.head
    /\ call.head = call.feed.cursor

----------------------------------------------------------------------------
(* Properties of a Feed without a cursor                                   *)

\* C20: a poll that fetched a Feed whose cursor is empty leaves the cursor
\* table and the cursor file as they were and tries no write, and returns
\* the Feed's items that pass its filters; and no poll leaves the empty
\* string in the table as the cursor of a key that did not hold it before.
C20_EmptyCursorNotStored ==
    /\ [][(call' # call /\ IsPoll(call') /\ call'.fetched /\ call'.feed.cursor = "")
            => /\ cursors' = cursors /\ file' = file /\ call'.wrote = "none"
               /\ call'.status = "ok"
               /\ LET Keeps(item) ==
                          /\ item.bucket \in DefaultBuckets(call'.buckets)
                          /\ (ListTruthy(call'.sources) => item.source \in call'.sources.vals)
                          /\ (ListTruthy(call'.tags)
                                 => \E t \in call'.tags.vals :
                                        t \in DictGet(cache'.table, item.source, {}))
                  IN  call'.result = SelectSeq(InFeedOrder(call'.raw), Keeps)]_vars
    /\ [][(call' # call /\ IsPoll(call'))
            => \A k \in DOMAIN cursors' :
                   cursors'[k] = "" => (k \in DOMAIN cursors /\ cursors[k] = "")]_vars

\* A poll of a key with a stored cursor has fetched a Feed without a cursor
\* and returned an item; the stored cursor is the one it found, and the file
\* holds it.
C20_Witness ==
    /\ enabled /\ IsPoll(call) /\ call.fetched /\ call.feed.cursor = ""
    /\ Truthy(call.before) /\ StoredCursor(call.key) = call.before
    /\ FreshGet(file, call.key) = call.before
    /\ Len(call.result) = 1 /\ call.wrote = "none"

----------------------------------------------------------------------------
(* Properties of two stores over one file                                  *)

IsPeerWrite(c) == c.op \in {"peer set", "peer clear"}

\* The call changed nothing in the instance's table but the entry of its key
\* (every entry, for a clear without a key): nothing came in from the file.
OnlyOwnChange(c, before, after) ==
    IF Truthy(c.key)
    THEN \A k \in StoreKeys : k # c.key => StoreGet(after, k) = StoreGet(before, k)
    ELSE after = EmptyTable

\* C21: of two stores over one file, a call of one never changes the table
\* of the other and takes nothing from the file into its own table; after a
\* set or clear of either whose write succeeded the file holds exactly the
\* table of that instance, so that a key the other instance holds and the
\* writer does not is absent from the file.
C21_LastWriterWins ==
    /\ [][(call' # call /\ IsStoreWrite(call'))
            => (peer' = peer /\ OnlyOwnChange(call', cursors, cursors'))]_vars
    /\ [][(call' # call /\ IsPeerWrite(call'))
            => (cursors' = cursors /\ OnlyOwnChange(call', peer, peer'))]_vars
    /\ []((IsStoreWrite(call) /\ call.wrote = "ok")
            => \A k \in StoreKeys : FreshGet(file, k) = StoreGet(cursors, k))
    /\ []((IsPeerWrite(call) /\ call.wrote = "ok")
            => \A k \in StoreKeys : FreshGet(file, k) = StoreGet(peer, k))

\* The second instance has saved a cursor under one key; the cursor the first
\* instance holds under the other key, and had saved, is gone from the file.
C21_Witness ==
    /\ call.op = "peer set" /\ call.wrote = "ok" /\ call.key = SourceKey("s1")
    /\ StoreGet(cursors, GlobalKey) = "c2" /\ StoreGet(peer, GlobalKey) = None
    /\ FreshGet(file, GlobalKey) = None /\ FreshGet(file, SourceKey("s1")) = "c1"

----------------------------------------------------------------------------
(* Properties of the feed keys                                             *)

\* The feed keys of the sources s1 and s2 and the global one.
AllFeedKeys == {GlobalKey} \cup {SourceKey(id) : id \in SourceIds}

\* poll and every poll of a watch iteration work on the key "global",
\* poll_source on a key "source:<id>"; the poll found the entry of its key,
\* and left the stored cursor of every other key as it was.
OwnKeyOnly ==
    /\ [](call.op = "poll" => call.key = GlobalKey)
    /\ [](call.op = "poll_source" => \E id \in SourceIds : call.key = SourceKey(id))
    /\ []((watch.pc # "idle" /\ call.op # "none") => call.op = "poll")
    /\ [][(call' # call /\ IsPoll(call'))
            => /\ call'.before = StoredCursor(call'.key)
               /\ \A k \in AllFeedKeys :
                      k # call'.key => StoreGet(cursors', k) = StoreGet(cursors, k)]_vars

\* C22 as stated: a poll works on the entry of its own key only, and every
\* request it sends goes to the head URL or the latest URL of its key.
C22_OwnKeyOwnUrls ==
    /\ OwnKeyOnly
    /\ [](IsPoll(call)
            => \A i \in 1..Len(call.requests) :
                   UsesHeadUrl(call, call.requests[i]) \/ UsesLatestUrl(call, call.requests[i]))

\* C22 amended: a poll works on the entry of its own key only; its first
\* request goes to the head URL of its key, its second to the latest URL of
\* its key, and a third, which only a poll with a non-empty tags filter
\* sends, to the sources document; no request goes to the head or latest URL
\* of another key.
C22_OwnKeyOwnUrlsAndSources ==
    /\ OwnKeyOnly
    /\ [](IsPoll(call)
            => /\ Len(call.requests) \in 1..3
               /\ UsesHeadUrl(call, call.requests[1])
               /\ (Len(call.requests) >= 2 => UsesLatestUrl(call, call.requests[2]))
               /\ (Len(call.requests) = 3
                      => (call.requests[3] = SourcesUrl /\ ListTruthy(call.tags))))

\* A poll_source has saved a new cursor under its key while another cursor
\* is stored under "global".
C22_Witness ==
    /\ call.op = "poll_source" /\ call.fetched /\ call.wrote = "ok"
    /\ call.before # call.feed.cursor /\ StoredCursor(call.key) = call.feed.cursor
    /\ Truthy(StoredCursor(GlobalKey)) /\ StoredCursor(GlobalKey) # StoredCursor(call.key)

----------------------------------------------------------------------------
(* Properties of reset_cursors                                             *)

\* Every entry of table before but that of key is in table after, unchanged.
OthersUnchanged(before, after, key) ==
    \A k \in DOMAIN before \cup DOMAIN after :
        k # key => StoreGet(after, k) = StoreGet(before, k)

\* A poll that found no cursor stored for its key and got a Head requested
\* the Feed of its key, and if it got it, returned the Feed's items that pass
\* its filters.
PollOfClearedKeyFetches ==
    [][(call' # call /\ IsPoll(call') /\ call'.before = None /\ call'.head # None)
          => /\ Len(call'.requests) >= 2 /\ UsesLatestUrl(call', call'.requests[2])
             /\ call'.fetched
                  => LET Keeps(item) ==
                             /\ item.bucket \in DefaultBuckets(call'.buckets)
                             /\ (ListTruthy(call'.sources)
                                    => item.source \in call'.sources.vals)
                             /\ (ListTruthy(call'.tags)
                                    => \E t \in call'.tags.vals :
                                           t \in DictGet(cache'.table, item.source, {}))
                     IN  call'.result = SelectSeq(InFeedOrder(call'.raw), Keeps)]_vars

----------------------------------------------------------------------------
(* Properties of the order of the watch loop                               *)

IsPrefix(s, t) == Len(s) <= Len(t) /\ \A i \in 1..Len(s) : s[i] = t[i]

\* C24: the batch of an iteration is what its poll returned, in that order;
\* the invocations of the handler are a prefix of the batch, one more item
\* with each invocation and nothing else happening to the client meanwhile;
\* the sleep begins after the invocation of the last item (or at once when
\* the poll returned nothing, or when the poll or an invocation raised); a
\* poll is made only where the loop is at its poll, which it reaches only from
\* the start of watch or the end of a sleep.
C24_StrictlySequential ==
    /\ []((watch.pc \in {"dispatch", "sleep"} /\ call.status = "ok")
            => watch.items = call.result)
    /\ [](watch.pc # "idle" => IsPrefix(watch.invoked, watch.items))
    /\ [][(watch.pc = "dispatch" /\ watch' # watch)
            => /\ watch'.invoked = Append(watch.invoked, watch.items[Len(watch.invoked) + 1])
               /\ watch'.items = watch.items
               /\ call' = call /\ cursors' = cursors /\ file' = file /\ cache' = cache]_vars
    /\ [][(watch'.invoked # watch.invoked /\ watch'.invoked # <<>>)
            => watch.pc = "dispatch"]_vars
    /\ [][(watch'.pc = "sleep" /\ watch.pc # "sleep")
            => (watch'.failed \/ watch'.invoked = watch'.items)]_vars
    /\ [][(call' # call /\ IsPoll(call')) => watch.pc = "poll"]_vars
    /\ [][(watch'.pc = "poll" /\ watch.pc # "poll") => watch.pc \in {"idle", "sleep"}]_vars
    /\ [][(watch'.pc = "dispatch" /\ watch.pc # "dispatch") => watch.pc = "poll"]_vars

\* The handler has been invoked for both items of a batch, in the order the
\* poll returned them, and the loop is in the sleep that follows.
C24_Witness ==
    /\ watch.pc = "sleep" /\ ~watch.failed /\ call.status = "ok"
    /\ Len(call.result) = 2 /\ call.result[1] # call.result[2]
    /\ watch.invoked = call.result

----------------------------------------------------------------------------
(* Properties of the delivery of a batch                                   *)

\* C25 as stated: whenever the loop is about to invoke the handler for an
\* item of a batch, the cursor of the batch's Feed is stored under "global".
C25_CursorBeforeHandler ==
    watch.pc = "dispatch" => StoredCursor(GlobalKey) = call.feed.cursor

\* C25 amended: on a client with a cursor store and for a Feed with a
\* non-empty cursor, the Feed's cursor is stored under "global" whenever the
\* loop is about to invoke the handler for an item of the batch, and the
\* invocations leave it there; and an iteration that finds a Head with the
\* stored cursor invokes the handler for nothing, whatever the iterations
\* before it left undispatched.
C25_CursorBeforeHandlerIfStored ==
    /\ []((watch.pc = "dispatch" /\ enabled /\ Truthy(call.feed.cursor))
            => StoredCursor(GlobalKey) = call.feed.cursor)
    /\ [][watch.pc = "dispatch" => cursors' = cursors]_vars
    /\ [][(watch.pc = "poll" /\ call' # call /\ call'.head # None
             /\ Truthy(StoredCursor(GlobalKey)) /\ call'.head = StoredCursor(GlobalKey))
            => (call'.result = <<>> /\ watch'.items = <<>> /\ watch'.pc = "sleep"
                   /\ cursors' = cursors)]_vars

\* After an iteration in which the handler raised, an iteration has found
\* the Head's cursor stored and has gone to sleep on the Head request alone.
C25_Witness ==
    /\ watch.pc = "sleep" /\ enabled /\ OnlyHeadAndEmpty(call)
    /\ Truthy(call.before) /\ call.before = call.head
    /\ \E s \in watch.slept : s.after = "handler raised"
    /\ watch.invoked = <<>>

----------------------------------------------------------------------------
(* Properties of the client of a quiet server                              *)

StableStored == StoredCursor(GlobalKey) = StableCursor

\* C26: against a server that answers every request with a Head and a Feed
\* of the same non-empty cursor, the client comes to hold that cursor for the
\* key and keeps it; the Feed is fetched only by a poll that begins without
\* the cursor stored and ends with it stored, hence once if the cursor was
\* not yet stored and never if it was; and every poll that begins with the
\* cursor stored returns [] after the Head request alone and no handler is
\* invoked.
C26_Quiescence ==
    /\ <>[]StableStored
    /\ [][StableStored => StableStored']_vars
    /\ [][(call' # call /\ IsPoll(call') /\ ~StableStored)
            => (call'.fetched /\ StableStored')]_vars
    /\ [][(call' # call /\ IsPoll(call') /\ call'.fetched)
            => (~StableStored /\ StableStored')]_vars
    /\ [][(call' # call /\ IsPoll(call') /\ StableStored)
            => (OnlyHeadAndEmpty(call') /\ watch'.pc # "dispatch"
                   /\ watch'.invoked = <<>>)]_vars

\* A watch whose first poll fetched the Feed has slept and polled again,
\* and that poll returned [] after the Head request alone.
C26_Witness ==
    /\ watch.pc = "sleep" /\ watch.slept # {} /\ StableStored
    /\ OnlyHeadAndEmpty(call) /\ call.before = StableCursor
    /\ file # FileDict(cursors)

----------------------------------------------------------------------------
(* Properties of empty filters                                             *)

\* C27: a poll whose tags filter is absent or empty returns what the bucket
\* filter and the sources filter let through, and sends no request for the
\* sources document; a poll whose sources filter is absent or empty returns
\* what the bucket filter and the tags filter let through; so with both
\* absent or empty it returns every item of the filter's buckets, as poll()
\* does. (vals is empty for an absent list and for an empty one.)
C27_EmptyFilterIsAbsent ==
    LET InBucket(item) == item.bucket \in DefaultBuckets(call.buckets)
        InSources(item) == item.source \in call.sources.vals
        HasTag(item) == \E t \in call.tags.vals :
                            t \in DictGet(cache.table, item.source, {})
        BucketOnly(item) == InBucket(item)
        BucketAndSources(item) == InBucket(item) /\ InSources(item)
        BucketAndTags(item) == InBucket(item) /\ HasTag(item)
        all == InFeedOrder(call.raw)
    IN  (IsPoll(call) /\ call.fetched)
            => /\ (call.tags.vals = {} /\ call.sources.vals = {})
                      => call.result = SelectSeq(all, BucketOnly)
               /\ (call.tags.vals = {} /\ call.sources.vals # {})
                      => call.result = SelectSeq(all, BucketAndSources)
               /\ (call.tags.vals # {} /\ call.sources.vals = {})
                      => call.result = SelectSeq(all, BucketAndTags)
               /\ call.tags.vals = {}
                      => (Sends(call.requests, SourcesUrl) = 0 /\ cache = CacheUnset
                             /\ sent = 0)

\* poll(tags=[], sources=[]) has returned both items of a Feed.
C27_Witness ==
    /\ IsPoll(call) /\ call.fetched
    /\ call.tags = Given({}) /\ call.sources = Given({}) /\ ~call.buckets.given
    /\ Len(call.feed.items) = 2 /\ call.result = call.feed.items

====
